---- MODULE Spec2Model ----
(***************************************************************************)
(* Model of app.py, the Streamlit marketing request form: validation of    *)
(* the raw form input, normalisation into a payload, the append to         *)
(* requests.csv and the serialization of the download artifact.            *)
(*                                                                         *)
(* A string is a sequence of symbols.  A symbol is one character, except   *)
(* that a literal of the program whose characters are all ordinary for     *)
(* every operation applied to it (a header name, an enum label, the        *)
(* date part of a timestamp) is written as one symbol.                     *)
(***************************************************************************)
EXTENDS Integers, Sequences, FiniteSets, TLC

\* ------------------------------------------------------------------ bounds
\* Submissions started over all sessions.
MaxSubmits == 2
\* Last value of the clock, in ticks.
MaxClock == 3
\* Ticks of the model clock per second of time.strftime's resolution.
TicksPerSecond == 2

\* ----------------------------------------------------------------- strings
\* Python's str.isspace() / regex \s on the characters the model uses.
Whitespace == {" ", "\n", "\r", "\t"}

\* Regex \d on the characters the model uses.
DigitSeq == <<"0", "1", "2", "3", "4", "5", "6", "7", "8", "9">>

Digits == {DigitSeq[i] : i \in 1..10}

RECURSIVE LStrip(_)
\* str.lstrip(): drop leading whitespace.
LStrip(s) ==
    IF s # <<>> /\ Head(s) \in Whitespace THEN LStrip(Tail(s)) ELSE s

RECURSIVE RStrip(_)
\* str.rstrip(): drop trailing whitespace.
RStrip(s) ==
    IF s # <<>> /\ s[Len(s)] \in Whitespace
    THEN RStrip(SubSeq(s, 1, Len(s) - 1)) ELSE s

\* str.strip() as used on name, email and notes (lines 92, 121, 122, 126).
Strip(s) == RStrip(LStrip(s))

IsDigit(c) == c \in Digits

\* clean_phone: re.sub(r"\D+", "", p or "") keeps exactly the digits.
clean_phone(p) == SelectSeq(p, IsDigit)

\* [^@\s]
EmailChar(c) == c # "@" /\ c \notin Whitespace

\* ^[^@\s]+@[^@\s]+\.[^@\s]+$ on the whole of b (the anchors at both ends).
EmailFull(b) ==
    \E i \in 1..Len(b) : \E j \in 1..Len(b) :
        /\ b[i] = "@" /\ b[j] = "."
        /\ 1 < i /\ i + 1 < j /\ j < Len(b)
        /\ \A k \in 1..Len(b) : k # i => EmailChar(b[k])

\* EMAIL_RE.match(email): Python's $ also matches just before a final "\n".
EMAIL_RE_match(e) ==
    \/ EmailFull(e)
    \/ /\ e # <<>> /\ e[Len(e)] = "\n"
       /\ EmailFull(SubSeq(e, 1, Len(e) - 1))

\* ------------------------------------------------------------------- dates
\* A date is <<year, month, day>>; date.__gt__ compares in that order.
DateGT(a, b) ==
    \/ a[1] > b[1]
    \/ a[1] = b[1] /\ a[2] > b[2]
    \/ a[1] = b[1] /\ a[2] = b[2] /\ a[3] > b[3]

RECURSIVE Pad(_, _)
\* The decimal digits of n, zero-padded to w places (%04d, %02d).
Pad(n, w) ==
    IF w = 0 THEN <<>> ELSE Pad(n \div 10, w - 1) \o <<DigitSeq[(n % 10) + 1]>>

\* date.isoformat(): YYYY-MM-DD.
isoformat(d) == Pad(d[1], 4) \o <<"-">> \o Pad(d[2], 2) \o <<"-">> \o Pad(d[3], 2)

\* time.strftime("%Y-%m-%d %H:%M:%S") at clock value t: whole seconds only.
strftime(t) == <<"2024-01-01 00:00:">> \o Pad(t \div TicksPerSecond, 2)

\* --------------------------------------------------------------- csv writer
\* csv.writer's default dialect: a field is quoted when it holds the
\* delimiter, the quote character or a character of the line terminator.
NeedsQuote(f) == \E i \in 1..Len(f) : f[i] \in {",", "\"", "\r", "\n"}

RECURSIVE DoubleQuotes(_)
\* doublequote=True: every embedded quote character is written twice.
DoubleQuotes(f) ==
    IF f = <<>> THEN <<>>
    ELSE (IF Head(f) = "\"" THEN <<"\"", "\"">> ELSE <<Head(f)>>)
         \o DoubleQuotes(Tail(f))

\* Mutant: fields are written as they are, never quoted.
QuoteField_Never(f) == f

QuoteField(f) ==
    IF NeedsQuote(f) THEN <<"\"">> \o DoubleQuotes(f) \o <<"\"">> ELSE f

RECURSIVE JoinFields(_)
JoinFields(fs) ==
    IF fs = <<>> THEN <<>>
    ELSE IF Len(fs) = 1 THEN QuoteField(fs[1])
    ELSE QuoteField(Head(fs)) \o <<",">> \o JoinFields(Tail(fs))

\* writer.writerow(fields): the joined fields and the terminator "\r\n".
writerow(fs) == JoinFields(fs) \o <<"\r", "\n">>

\* The header both append_to_csv and to_csv_row write.
HeaderFields ==
    << <<"timestamp">>, <<"name">>, <<"email">>, <<"phone">>, <<"channel">>,
       <<"activity">>, <<"notes">>, <<"start_date">>, <<"end_date">> >>

\* The data row both functions write: strftime at the time of the call, then
\* the payload's fields in header order.
RowFields(payload, t) ==
    << strftime(t), payload.name, payload.email, payload.phone,
       payload.channel, payload.activity, payload.notes,
       payload.start_date, payload.end_date >>

\* to_csv_row(payload) called at clock value t.
to_csv_row(payload, t) == writerow(HeaderFields) \o writerow(RowFields(payload, t))

\* --------------------------------------------------------------- csv reader
\* The reader of the same dialect: delimiter ",", quote character "\"",
\* doubled quotes inside a quoted field, records ended by "\r\n", "\r" or
\* "\n".  A field and a record are located by position, so that reading a
\* file nests no deeper than its records, their fields and a field's
\* characters.
EndOfField == {",", "\r", "\n"}

RECURSIVE NextOf(_, _, _)
\* The least position from i on that holds one of cs, Len(data) + 1 if none.
NextOf(data, i, cs) ==
    IF i > Len(data) \/ data[i] \in cs THEN i ELSE NextOf(data, i + 1, cs)

RECURSIVE ClosingQuote(_, _)
\* The closing quote of a quoted field whose text starts at i: the first
\* quote that is not the first of a doubled pair; Len(data) + 1 if the field
\* is never closed.
ClosingQuote(data, i) ==
    IF i > Len(data) THEN i
    ELSE IF data[i] # "\"" THEN ClosingQuote(data, i + 1)
    ELSE IF i < Len(data) /\ data[i + 1] = "\"" THEN ClosingQuote(data, i + 2)
    ELSE i

RECURSIVE Undouble(_)
\* The text of a quoted field: each doubled quote is one quote.
Undouble(f) ==
    IF f = <<>> THEN <<>>
    ELSE IF Len(f) >= 2 /\ f[1] = "\"" /\ f[2] = "\""
    THEN <<"\"">> \o Undouble(SubSeq(f, 3, Len(f)))
    ELSE <<Head(f)>> \o Undouble(Tail(f))

\* The field that starts at i: [text, next], next being the position of the
\* delimiter or terminator after it.
ReadField(data, i) ==
    IF i <= Len(data) /\ data[i] = "\""
    THEN LET q == ClosingQuote(data, i + 1)
             e == NextOf(data, q + 1, EndOfField)
         IN  [text |-> Undouble(SubSeq(data, i + 1, q - 1))
                        \o SubSeq(data, q + 1, e - 1),
              next |-> e]
    ELSE LET e == NextOf(data, i, EndOfField)
         IN  [text |-> SubSeq(data, i, e - 1), next |-> e]

RECURSIVE ReadRecord(_, _, _)
\* The record whose next field starts at i: [row, next], next being the
\* position after the record's terminator.
ReadRecord(data, i, row) ==
    LET f == ReadField(data, i)
        n == f.next
    IN  IF n <= Len(data) /\ data[n] = ","
        THEN ReadRecord(data, n + 1, Append(row, f.text))
        ELSE [row |-> IF row = <<>> /\ f.text = <<>> /\ n = i
                      THEN <<>> ELSE Append(row, f.text),
              next |-> IF n < Len(data) /\ data[n] = "\r" /\ data[n + 1] = "\n"
                       THEN n + 2 ELSE n + 1]

RECURSIVE ReadFrom(_, _, _)
ReadFrom(data, i, rows) ==
    IF i > Len(data) THEN rows
    ELSE LET r == ReadRecord(data, i, <<>>)
         IN  ReadFrom(data, r.next, Append(rows, r.row))

\* The records of a csv text, each a sequence of fields.
ReadCsv(data) == ReadFrom(data, 1, <<>>)

\* -------------------------------------------------------------- form input
\* Browser sessions; Streamlit runs each session's script in a thread of its
\* own, all in one process and one working directory.
Sessions == {"s1", "s2"}

D_Jan08 == <<2024, 1, 8>>

D_Feb01 == <<2024, 2, 1>>

\* What st.date_input returns for a range: a tuple of 0, 1 or 2 dates.
DateSelections ==
    { <<D_Jan08>>, <<D_Jan08, D_Feb01>>, <<D_Feb01, D_Jan08>>, <<D_Jan08, D_Jan08>> }

Names == { <<>>, <<" ">>, <<" ", "J", ",", "\"", " ">> }

Emails ==
    { <<"a", ",", "@", "b", ".", "c">>,
      <<"a", "@", "b", ".", "c", "\n">>,
      <<" ", "a", "@", "b", ".", "c">>,
      <<"a", "@", ".", "c">> }

Phones ==
    { <<"+", "1", " ", "4", "1", "6", "-", "5", "5", "5", "0">>,
      <<"5", "5", "5", "-", "1", "2">> }

NotesTexts == { <<" ", "x", ",", "\n", "\"", "y", " ">> }

\* The raw values the widgets of the form return (lines 52-84).
Form(n, e, p, c, a, t, d) ==
    [name |-> n, email |-> e, phone |-> p, channel |-> c,
     marketing_activity |-> a, notes |-> t, start_end |-> d]

\* Every combination of the field values above.
AllForms ==
    { Form(n, e, p, <<"retail">>, <<"SEO">>, t, d) :
        n \in Names, e \in Emails, p \in Phones, t \in NotesTexts,
        d \in DateSelections }

\* The forms concurrent sessions submit: a valid one whose fields need
\* quoting, and one that fails every rule.
SomeForms ==
    { Form(<<" ", "J", ",", "\"", " ">>, <<"a", ",", "@", "b", ".", "c">>,
           <<"+", "1", " ", "4", "1", "6", "-", "5", "5", "5", "0">>,
           <<"kiosk">>, <<"Print Flyers">>, <<"x", "\n", "y">>, <<D_Jan08, D_Feb01>>),
      Form(<<>>, <<"n", "o", "t">>, <<"1", "2", "3">>,
           <<"retail">>, <<"SEO">>, <<>>, <<D_Feb01, D_Jan08>>) }

NoForm == [name |-> <<>>]

NoPayload == [name |-> <<>>]

NoArtifact == [data |-> <<>>]

\* ------------------------------------------------------------------ state
VARIABLES
    pc,          \* where each session's script run is
    form,        \* the widget values of the run
    errors,      \* the run's error list (line 91)
    pct,         \* the next value of the progress loop (line 116)
    payload,     \* the run's payload (line 120)
    is_new,      \* append_to_csv's local (line 20)
    exists,      \* whether requests.csv exists
    content,     \* the characters of requests.csv
    clock,       \* the wall clock, in ticks
    saved,       \* per session: "Saved" toast and success message shown
    raised,      \* per session: the run ended with an uncaught exception
    artifact,    \* per session: what the download button offers
    appended,    \* history: the row the run appended to requests.csv
    submits,     \* history: the submissions started so far
    successes    \* history: the submissions reported as saved so far

vars ==
    <<pc, form, errors, pct, payload, is_new, exists, content, clock,
      saved, raised, artifact, appended, submits, successes>>

Init ==
    /\ pc = [s \in Sessions |-> "Idle"]
    /\ form = [s \in Sessions |-> NoForm]
    /\ errors = [s \in Sessions |-> <<>>]
    /\ pct = [s \in Sessions |-> 0]
    /\ payload = [s \in Sessions |-> NoPayload]
    /\ is_new = [s \in Sessions |-> FALSE]
    /\ exists = FALSE
    /\ content = <<>>
    /\ clock = 0
    /\ saved = [s \in Sessions |-> FALSE]
    /\ raised = [s \in Sessions |-> FALSE]
    /\ artifact = [s \in Sessions |-> NoArtifact]
    /\ appended = [s \in Sessions |-> <<>>]
    /\ submits = 0
    /\ successes = 0

\* -------------------------------------------------------------- validation
MsgName == "Name is required."

MsgEmail == "Enter a valid email address."

MsgPhone == "Enter a valid phone number (at least 7 digits)."

MsgDuration == "Please select a start and an end date for the duration."

MsgOrder == "Start date cannot be after end date."

\* Digits a phone number needs (line 97).
MinPhoneDigits == 7

\* Mutant: the checks chained with elif, so only the first failure is kept.
Validation_FirstOnly(f) ==
    IF Strip(f.name) = <<>> THEN <<MsgName>>
    ELSE IF ~EMAIL_RE_match(f.email) THEN <<MsgEmail>>
    ELSE IF Len(clean_phone(f.phone)) < MinPhoneDigits THEN <<MsgPhone>>
    ELSE IF Len(f.start_end) # 2 THEN <<MsgDuration>>
    ELSE IF DateGT(f.start_end[1], f.start_end[2]) THEN <<MsgOrder>>
    ELSE <<>>

\* Lines 91-105: the four checks in order, each appending to errors.
Validation(f) ==
    (IF Strip(f.name) = <<>> THEN <<MsgName>> ELSE <<>>)
    \o (IF ~EMAIL_RE_match(f.email) THEN <<MsgEmail>> ELSE <<>>)
    \o (IF Len(clean_phone(f.phone)) < MinPhoneDigits THEN <<MsgPhone>> ELSE <<>>)
    \o (IF Len(f.start_end) # 2 THEN <<MsgDuration>>
        ELSE IF DateGT(f.start_end[1], f.start_end[2]) THEN <<MsgOrder>>
        ELSE <<>>)

\* Mutant: the payload takes phone as typed instead of cleaned_phone.
MakePayload_RawPhone(f) ==
    [name |-> Strip(f.name),
     email |-> Strip(f.email),
     phone |-> f.phone,
     channel |-> f.channel,
     activity |-> f.marketing_activity,
     notes |-> Strip(f.notes),
     start_date |-> isoformat(f.start_end[1]),
     end_date |-> isoformat(f.start_end[2])]

\* Lines 120-129: the payload, from the widget values and the locals
\* cleaned_phone, start_date and end_date that validation set.
MakePayload(f) ==
    [name |-> Strip(f.name),
     email |-> Strip(f.email),
     phone |-> clean_phone(f.phone),
     channel |-> f.channel,
     activity |-> f.marketing_activity,
     notes |-> Strip(f.notes),
     start_date |-> isoformat(f.start_end[1]),
     end_date |-> isoformat(f.start_end[2])]

\* Lines 22-33: what the writer has put into the file object's buffer when
\* the with block closes it: the header if is_new, then the row.
Written(new, p, t) ==
    (IF new THEN writerow(HeaderFields) ELSE <<>>) \o writerow(RowFields(p, t))

\* Mutant: the file is opened in mode "w", which truncates it.
Flushed_Truncate(old, new, p, t) == Written(new, p, t)

\* Line 21: the file is opened in mode "a", so what is written goes after
\* what the file holds.
Flushed(old, new, p, t) == old \o Written(new, p, t)

\* The progress loop of line 116: range(0, 101, 20).
ProgressStop == 101

ProgressStride == 20

\* ----------------------------------------------------------------- actions
\* Line 86-89: the user presses Submit; the script reruns with the widget
\* values f and an empty page.
Submit(s, f) ==
    /\ pc[s] = "Idle"
    /\ submits < MaxSubmits
    /\ submits' = submits + 1
    /\ pc' = [pc EXCEPT ![s] = "Validating"]
    /\ form' = [form EXCEPT ![s] = f]
    /\ errors' = [errors EXCEPT ![s] = <<>>]
    /\ payload' = [payload EXCEPT ![s] = NoPayload]
    /\ saved' = [saved EXCEPT ![s] = FALSE]
    /\ raised' = [raised EXCEPT ![s] = FALSE]
    /\ artifact' = [artifact EXCEPT ![s] = NoArtifact]
    /\ appended' = [appended EXCEPT ![s] = <<>>]
    /\ UNCHANGED <<pct, is_new, exists, content, clock, successes>>

\* Lines 91-107 and 114: the checks; with no error the progress bar is
\* created at 0.
Validate(s) ==
    /\ pc[s] = "Validating"
    /\ errors' = [errors EXCEPT ![s] = Validation(form[s])]
    /\ pc' = [pc EXCEPT ![s] = IF Validation(form[s]) # <<>> THEN "Invalid" ELSE "Valid"]
    /\ pct' = [pct EXCEPT ![s] = IF Validation(form[s]) # <<>> THEN pct[s] ELSE 0]
    /\ UNCHANGED <<form, payload, is_new, exists, content, clock, saved, raised,
                   artifact, appended, submits, successes>>

\* Mutant: st.stop() is missing, so the run goes on to line 114.
ShowErrors_NoStop(s) ==
    /\ pc[s] = "Invalid"
    /\ pc' = [pc EXCEPT ![s] = "Valid"]
    /\ pct' = [pct EXCEPT ![s] = 0]
    /\ UNCHANGED <<form, errors, payload, is_new, exists, content, clock,
                   saved, raised, artifact, appended, submits, successes>>

\* Lines 108-111: the errors are rendered and st.stop() ends the run.
ShowErrors(s) ==
    /\ pc[s] = "Invalid"
    /\ pc' = [pc EXCEPT ![s] = "Idle"]
    /\ UNCHANGED <<form, errors, pct, payload, is_new, exists, content, clock,
                   saved, raised, artifact, appended, submits, successes>>

\* Mutant: the loop starts over after its last value instead of ending.
ProgressStep_Restart(s) ==
    /\ pc[s] = "Valid"
    /\ pct' = [pct EXCEPT ![s] =
                 IF pct[s] + ProgressStride < ProgressStop THEN pct[s] + ProgressStride ELSE 0]
    /\ UNCHANGED <<pc, form, errors, payload, is_new, exists, content, clock,
                   saved, raised, artifact, appended, submits, successes>>

\* Lines 116-118: one iteration of the progress loop.
ProgressStep(s) ==
    /\ pc[s] = "Valid"
    /\ pct[s] < ProgressStop
    /\ pct' = [pct EXCEPT ![s] = pct[s] + ProgressStride]
    /\ UNCHANGED <<pc, form, errors, payload, is_new, exists, content, clock,
                   saved, raised, artifact, appended, submits, successes>>

\* Lines 116 and 120-129: the loop is exhausted and the payload is built.
BuildPayload(s) ==
    /\ pc[s] = "Valid"
    /\ pct[s] >= ProgressStop
    /\ payload' = [payload EXCEPT ![s] = MakePayload(form[s])]
    /\ pc' = [pc EXCEPT ![s] = "Persisting"]
    /\ UNCHANGED <<form, errors, pct, is_new, exists, content, clock, saved,
                   raised, artifact, appended, submits, successes>>

\* Line 20: is_new = not CSV_PATH.exists().
ExistsCheck(s) ==
    /\ pc[s] = "Persisting"
    /\ is_new' = [is_new EXCEPT ![s] = ~exists]
    /\ pc' = [pc EXCEPT ![s] = "Opening"]
    /\ UNCHANGED <<form, errors, pct, payload, exists, content, clock, saved,
                   raised, artifact, appended, submits, successes>>

\* Line 21: open(..., "a") creates the file when it is absent.
OpenOk(s) ==
    /\ pc[s] = "Opening"
    /\ exists' = TRUE
    /\ pc' = [pc EXCEPT ![s] = "Writing"]
    /\ UNCHANGED <<form, errors, pct, payload, is_new, content, clock, saved,
                   raised, artifact, appended, submits, successes>>

\* Line 21: open raises OSError (unwritable directory, invalid path); nothing
\* catches it, so the run ends with the exception.
OpenFail(s) ==
    /\ pc[s] = "Opening"
    /\ raised' = [raised EXCEPT ![s] = TRUE]
    /\ pc' = [pc EXCEPT ![s] = "Failed"]
    /\ UNCHANGED <<form, errors, pct, payload, is_new, exists, content, clock,
                   saved, artifact, appended, submits, successes>>

\* Lines 22-33: the rows are buffered, and closing the file writes the buffer
\* at the end of the file (append mode) in one write.
WriteOk(s) ==
    /\ pc[s] = "Writing"
    /\ content' = Flushed(content, is_new[s], payload[s], clock)
    /\ appended' = [appended EXCEPT ![s] = writerow(RowFields(payload[s], clock))]
    /\ pc' = [pc EXCEPT ![s] = "Persisted"]
    /\ UNCHANGED <<form, errors, pct, payload, is_new, exists, clock, saved,
                   raised, artifact, submits, successes>>

\* Mutant: the write's OSError is caught and dropped, the run goes on.
WriteFail_Swallowed(s) ==
    /\ pc[s] = "Writing"
    /\ pc' = [pc EXCEPT ![s] = "Persisted"]
    /\ UNCHANGED <<form, errors, pct, payload, is_new, exists, content, clock,
                   saved, raised, artifact, appended, submits, successes>>

\* Lines 22-33: the write raises OSError (disk full); the file that open
\* created stays, nothing catches the exception.
WriteFail(s) ==
    /\ pc[s] = "Writing"
    /\ raised' = [raised EXCEPT ![s] = TRUE]
    /\ pc' = [pc EXCEPT ![s] = "Failed"]
    /\ UNCHANGED <<form, errors, pct, payload, is_new, exists, content, clock,
                   saved, artifact, appended, submits, successes>>

\* Streamlit renders the uncaught exception and the run is over.
ShowException(s) ==
    /\ pc[s] = "Failed"
    /\ pc' = [pc EXCEPT ![s] = "Idle"]
    /\ UNCHANGED <<form, errors, pct, payload, is_new, exists, content, clock,
                   saved, raised, artifact, appended, submits, successes>>

\* Lines 133-143: toast, success message, and the download button whose data
\* is to_csv_row(payload) and whose file name is int(time.time()).
Respond(s) ==
    /\ pc[s] = "Persisted"
    /\ saved' = [saved EXCEPT ![s] = TRUE]
    /\ artifact' = [artifact EXCEPT ![s] =
                      [data |-> to_csv_row(payload[s], clock),
                       file_name |-> clock \div TicksPerSecond]]
    /\ successes' = successes + 1
    /\ pc' = [pc EXCEPT ![s] = "ResponseReady"]
    /\ UNCHANGED <<form, errors, pct, payload, is_new, exists, content, clock,
                   raised, appended, submits>>

\* Lines 145-150: the footer is rendered and the run ends.
Finish(s) ==
    /\ pc[s] = "ResponseReady"
    /\ pc' = [pc EXCEPT ![s] = "Idle"]
    /\ UNCHANGED <<form, errors, pct, payload, is_new, exists, content, clock,
                   saved, raised, artifact, appended, submits, successes>>

\* Time passes.
Tick ==
    /\ clock < MaxClock
    /\ clock' = clock + 1
    /\ UNCHANGED <<pc, form, errors, pct, payload, is_new, exists, content,
                   saved, raised, artifact, appended, submits, successes>>

\* One step of session s's run, after Submit.
Run(s) ==
    \/ Validate(s)
    \/ ShowErrors(s)
    \/ ProgressStep(s)
    \/ BuildPayload(s)
    \/ ExistsCheck(s)
    \/ OpenOk(s)
    \/ OpenFail(s)
    \/ WriteOk(s)
    \/ WriteFail(s)
    \/ ShowException(s)
    \/ Respond(s)
    \/ Finish(s)

\* Concurrent sessions submitting forms of SomeForms.
Next ==
    \/ \E s \in Sessions : \E f \in SomeForms : Submit(s, f)
    \/ \E s \in Sessions : Run(s)
    \/ Tick

Spec == Init /\ [][Next]_vars

\* The same, every started run being scheduled until it ends.
FairSpec == Spec /\ \A s \in Sessions : WF_vars(Run(s))

\* One session submitting every combination of field values.
NextForms ==
    \/ \E f \in AllForms : Submit("s1", f)
    \/ Run("s1")
    \/ Tick

SpecForms == Init /\ [][NextForms]_vars

\* ------------------------------------------------------------- properties
\* The records of requests.csv as the reader sees them.
Rows == ReadCsv(content)

IsDataRow(r) == r # HeaderFields

\* The records of requests.csv that are not a header row.
DataRows == SelectSeq(Rows, IsDataRow)

DataRowsOf(c) == SelectSeq(ReadCsv(c), IsDataRow)

Range(q) == {q[i] : i \in 1..Len(q)}

\* The payload's fields in header order, after the timestamp.
PayloadFields(p) ==
    <<p.name, p.email, p.phone, p.channel, p.activity, p.notes,
      p.start_date, p.end_date>>

\* Session s takes a step of its run.
Steps(s) == pc'[s] # pc[s] \/ pct'[s] # pct[s]

\* C1: a submission whose validation yields errors has no side effect: the
\* steps of its run leave requests.csv as it is (not created, nothing
\* written), it appends no row, and it shows neither the "Saved" toast nor a
\* download artifact.
C1_InvalidNoSideEffect ==
    /\ [](\A s \in Sessions : errors[s] # <<>> =>
            /\ appended[s] = <<>>
            /\ artifact[s] = NoArtifact
            /\ ~saved[s])
    /\ [][\A s \in Sessions : (Steps(s) /\ (errors[s] # <<>> \/ errors'[s] # <<>>)) =>
            (content' = content /\ exists' = exists)]_vars

\* C1 witness: a run that ended with the four errors of an all-invalid form,
\* next to a store that another run has written.
C1_Witness ==
    \E s \in Sessions :
        /\ pc[s] = "Idle"
        /\ errors[s] = <<MsgName, MsgEmail, MsgPhone, MsgOrder>>
        /\ content # <<>>

\* C2: the artifact of a successful submission is its header row followed by
\* exactly the row the submission appended to requests.csv, timestamp
\* included.
C2_ArtifactMirrorsStore ==
    \A s \in Sessions : artifact[s] # NoArtifact =>
        /\ appended[s] # <<>>
        /\ ReadCsv(artifact[s].data) = <<HeaderFields>> \o ReadCsv(appended[s])

\* C6: requests.csv, once written, has exactly one header row, and it is the
\* first row.
C6_OneHeaderFirst ==
    content # <<>> =>
        /\ Rows[1] = HeaderFields
        /\ \A i \in 2..Len(Rows) : Rows[i] # HeaderFields

\* C7: a run that ended with the I/O error of append_to_csv shows neither
\* the "Saved" toast nor an artifact, and an artifact exists only for a row
\* that the run appended and that requests.csv holds.
C7_FailureNotSuccess ==
    \A s \in Sessions :
        /\ raised[s] => (~saved[s] /\ artifact[s] = NoArtifact)
        /\ (artifact[s] # NoArtifact \/ saved[s]) =>
              /\ appended[s] # <<>>
              /\ ReadCsv(appended[s])[1] \in Range(DataRows)

\* C7 witness: a run ended by a failed write into a file that open created.
C7_Witness ==
    \E s \in Sessions : raised[s] /\ pc[s] = "Idle" /\ exists /\ content = <<>>

\* C8: to_csv_row on the same payload gives the same text at every call.
C8_SerializeSamePayloadSameText ==
    \A s \in Sessions : \A t \in Sessions :
        (/\ artifact[s] # NoArtifact
         /\ artifact[t] # NoArtifact
         /\ payload[s] = payload[t]) => artifact[s].data = artifact[t].data

\* The rank of a message in the order of the checks.
MsgRank(m) ==
    CASE m = MsgName -> 1
      [] m = MsgEmail -> 2
      [] m = MsgPhone -> 3
      [] OTHER -> 4

\* C3: after validation the error list holds exactly one message for each
\* failed rule and none for a rule that passes, in the order name, email,
\* phone, date; the date rule gives the duration message when the selection
\* is not two dates and the order message iff it is two dates with
\* start > end.
C3_AllRulesCollected ==
    \A s \in Sessions : (pc[s] # "Validating" /\ form[s] # NoForm) =>
        LET f == form[s]
            e == errors[s]
        IN  /\ (MsgName \in Range(e)) <=> (\A i \in 1..Len(f.name) : f.name[i] \in Whitespace)
            /\ (MsgEmail \in Range(e)) <=> ~EMAIL_RE_match(f.email)
            /\ (MsgPhone \in Range(e)) <=>
                  Cardinality({i \in 1..Len(f.phone) : f.phone[i] \in Digits}) < MinPhoneDigits
            /\ (MsgDuration \in Range(e)) <=> Len(f.start_end) # 2
            /\ (MsgOrder \in Range(e)) <=>
                  (Len(f.start_end) = 2 /\ DateGT(f.start_end[1], f.start_end[2]))
            /\ \A i \in 1..Len(e) : \A j \in 1..Len(e) :
                  i < j => MsgRank(e[i]) < MsgRank(e[j])

\* C3 witness: a form that fails all four rules has been validated.
C3_Witness ==
    /\ pc["s1"] = "Invalid"
    /\ errors["s1"] = <<MsgName, MsgEmail, MsgPhone, MsgOrder>>

DigitVal(c) == CHOOSE k \in 0..9 : DigitSeq[k + 1] = c

\* a <= b for two ISO dates, compared as text.
IsoLE(a, b) ==
    \/ a = b
    \/ /\ Len(a) = Len(b)
       /\ \E i \in 1..Len(a) :
            /\ \A k \in 1..(i - 1) : a[k] = b[k]
            /\ a[i] \in Digits /\ b[i] \in Digits
            /\ DigitVal(a[i]) < DigitVal(b[i])

\* The record invariants of a stored row.
RecordOk(r) ==
    /\ Len(r) = 9
    /\ r[2] # <<>> /\ r[2][1] \notin Whitespace /\ r[2][Len(r[2])] \notin Whitespace
    /\ \A i \in 1..Len(r[3]) : r[3][i] \notin Whitespace
    /\ Cardinality({i \in 1..Len(r[3]) : r[3][i] = "@"}) = 1
    /\ \E i \in 2..Len(r[3]) : \E j \in 1..(Len(r[3]) - 1) :
          r[3][i] = "@" /\ r[3][j] = "." /\ i + 1 < j
    /\ Len(r[4]) >= MinPhoneDigits
    /\ \A i \in 1..Len(r[4]) : r[4][i] \in Digits
    /\ IsoLE(r[8], r[9])

\* C4: every data row of requests.csv has a non-empty name without leading
\* or trailing whitespace, an email of the validated shape, a phone of at
\* least 7 characters that are all digits, and start_date <= end_date.
C4_StoredRecordsValid ==
    \A r \in Range(DataRows) : RecordOk(r)

\* C4 witness: two rows are stored, from forms whose raw values differed from
\* the stored ones.
C4_Witness ==
    /\ Len(DataRows) = 2
    /\ DataRows[2][3] = <<"a", "@", "b", ".", "c">>
    /\ DataRows[2][8] = DataRows[2][9]

IsPrefix(a, b) == Len(a) <= Len(b) /\ SubSeq(b, 1, Len(a)) = a

\* C5: requests.csv only grows at its end; a step changes it only when a
\* run's write succeeds, and then by exactly that run's row after the rows it
\* held; the data rows number the successful submissions.
C5_AppendOnly ==
    /\ [](Len(DataRows) = successes + Cardinality({s \in Sessions : pc[s] = "Persisted"}))
    /\ [][/\ IsPrefix(content, content')
          /\ \A s \in Sessions :
               (pc[s] = "Writing" /\ pc'[s] = "Persisted") =>
                  DataRowsOf(content') =
                     Append(DataRowsOf(content), ReadCsv(appended'[s])[1])
          /\ (\A s \in Sessions : ~(pc[s] = "Writing" /\ pc'[s] = "Persisted")) =>
                  content' = content]_vars

\* C5 witness: the same form values were submitted twice and two rows are
\* stored, both reported as saved.
C5_Witness ==
    /\ Len(DataRows) = 2
    /\ SubSeq(DataRows[1], 2, 9) = SubSeq(DataRows[2], 2, 9)
    /\ successes = 2

\* C9: the row a run wrote, read back, is one record of nine fields: a
\* timestamp and then exactly the payload's fields in header order; and it is
\* the last record of requests.csv read as a whole.
C9_RowRoundTrip ==
    \A s \in Sessions : appended[s] # <<>> =>
        LET r == ReadCsv(appended[s])
        IN  /\ Len(r) = 1
            /\ Len(r[1]) = 9
            /\ \E t \in 0..MaxClock : r[1][1] = strftime(t)
            /\ SubSeq(r[1], 2, 9) = PayloadFields(payload[s])
            /\ Rows # <<>> /\ Rows[Len(Rows)] = r[1]

\* C9 witness: a row is stored whose name holds a comma and a quote and
\* whose notes hold a comma, a newline and a quote.
C9_Witness ==
    /\ appended["s1"] # <<>>
    /\ payload["s1"].name = <<"J", ",", "\"">>
    /\ payload["s1"].notes = <<"x", ",", "\n", "\"", "y">>
    /\ Len(Rows) = 3

\* The state of the submission state machine a run is in.
Phase(s) == IF pc[s] \in {"Opening", "Writing"} THEN "Persisting" ELSE pc[s]

PhaseNext(s) == IF pc'[s] \in {"Opening", "Writing"} THEN "Persisting" ELSE pc'[s]

Transitions ==
    { <<"Idle", "Validating">>, <<"Validating", "Invalid">>, <<"Validating", "Valid">>,
      <<"Invalid", "Idle">>, <<"Valid", "Persisting">>, <<"Persisting", "Failed">>,
      <<"Persisting", "Persisted">>, <<"Failed", "Idle">>,
      <<"Persisted", "ResponseReady">>, <<"ResponseReady", "Idle">> }

\* C10: a run moves only along the transitions of the submission state
\* machine; nothing is written before validation has passed, the artifact
\* exists only from ResponseReady on and after the write; and every started
\* run returns to Idle.
C10_StateMachine ==
    /\ [][\A s \in Sessions :
            PhaseNext(s) # Phase(s) => <<Phase(s), PhaseNext(s)>> \in Transitions]_vars
    /\ [](\A s \in Sessions :
            /\ Phase(s) \in {"Persisting", "Persisted", "ResponseReady"} => errors[s] = <<>>
            /\ appended[s] # <<>> => Phase(s) \in {"Persisted", "ResponseReady", "Idle"}
            /\ artifact[s] # NoArtifact =>
                  (Phase(s) \in {"ResponseReady", "Idle"} /\ appended[s] # <<>>))
    /\ \A s \in Sessions : (pc[s] # "Idle") ~> (pc[s] = "Idle")

\* C10 witness: one run has ended after its response, another after a
\* failure.
C10_Witness ==
    \E s \in Sessions : \E t \in Sessions :
        /\ pc[s] = "Idle" /\ artifact[s] # NoArtifact
        /\ pc[t] = "Idle" /\ raised[t]

====
